---- MODULE Spec2Model ----
(***************************************************************************)
(* Boolean-Model-for-IR (src/main.py): the text normaliser (preprocess),   *)
(* the index builder with its on-disk cache (build_indexes and the save    *)
(* and load functions), and the two query evaluators (boolean_query and    *)
(* proximity_query).                                                       *)
(*                                                                         *)
(* Text is modelled at character level: a Python str is a sequence of      *)
(* one-character strings, a file is the sequence of its lines.             *)
(***************************************************************************)
EXTENDS Integers, Sequences, FiniteSets, TLC

(***************************************************************************)
(* Bounds of the model.                                                    *)
(***************************************************************************)
\* most words in one document
MaxDocLen == 2
\* most tokens in a free-form boolean query
MaxQueryLen == 3
\* largest proximity distance k a query asks for
MaxK == 1

(***************************************************************************)
(* Characters.                                                             *)
(***************************************************************************)
LowerSeq == <<"a","b","c","d","e","f","g","h","i","j","k","l","m",
              "n","o","p","q","r","s","t","u","v","w","x","y","z">>
UpperSeq == <<"A","B","C","D","E","F","G","H","I","J","K","L","M",
              "N","O","P","Q","R","S","T","U","V","W","X","Y","Z">>
DigitSeq == <<"0","1","2","3","4","5","6","7","8","9">>

Range(s) == {s[i] : i \in 1..Len(s)}

Lower == Range(LowerSeq)
Upper == Range(UpperSeq)
Digit == Range(DigitSeq)
Alpha == Lower \cup Upper
AlNum == Alpha \cup Digit
\* the characters str.split() and str.strip() treat as whitespace
Space == {" ", "\t", "\n", "\r"}

\* the ASCII punctuation that occurs in words, queries and index files,
\* each with its code point
Punct == <<" ", "!", ",", "-", ".", "/", ":", "@", "[", "]", "_">>
PunctCode == <<32, 33, 44, 45, 46, 47, 58, 64, 91, 93, 95>>

Index(seq, c) == CHOOSE i \in 1..Len(seq) : seq[i] = c

\* ord(c); a character outside the alphabet above sorts first
Ord(c) == IF c \in Digit THEN 47 + Index(DigitSeq, c)
          ELSE IF c \in Upper THEN 64 + Index(UpperSeq, c)
          ELSE IF c \in Lower THEN 96 + Index(LowerSeq, c)
          ELSE IF c \in Range(Punct) THEN PunctCode[Index(Punct, c)]
          ELSE 0

\* str.lower() on one character
LowerChar(c) == IF c \in Upper
                THEN LowerSeq[Index(UpperSeq, c)]
                ELSE c

(***************************************************************************)
(* Python str operations.                                                  *)
(***************************************************************************)
Tail2(s, i) == SubSeq(s, i, Len(s))

\* s.lower()
StrLower(s) == [i \in 1..Len(s) |-> LowerChar(s[i])]

\* the characters of s that are in (keep = TRUE) or not in the class
Keep(s, class) == SelectSeq(s, LAMBDA c : c \in class)
Drop(s, class) == SelectSeq(s, LAMBDA c : c \notin class)

\* s.startswith(p)
StartsWith(s, p) == Len(s) >= Len(p) /\ SubSeq(s, 1, Len(p)) = p
EndsWith(s, p) == Len(s) >= Len(p) /\ SubSeq(s, Len(s) - Len(p) + 1, Len(s)) = p

\* length of the longest run of characters of the class starting at s[i]
RECURSIVE RunLen(_, _, _)
RunLen(s, i, class) ==
    IF i > Len(s) \/ s[i] \notin class THEN 0
    ELSE 1 + RunLen(s, i + 1, class)

\* length of the longest run of characters outside the class from s[i]
RECURSIVE RunLenNot(_, _, _)
RunLenNot(s, i, class) ==
    IF i > Len(s) \/ s[i] \in class THEN 0
    ELSE 1 + RunLenNot(s, i + 1, class)

\* s.strip()
Strip(s) ==
    LET lead == RunLen(s, 1, Space)
        keep == {i \in 1..Len(s) : s[i] \notin Space}
    IN  IF keep = {} THEN <<>>
        ELSE SubSeq(s, lead + 1, CHOOSE i \in keep : \A j \in keep : j <= i)

\* s.split(c): the fields between occurrences of c, empty fields kept
RECURSIVE SplitOn(_, _)
SplitOn(s, c) ==
    LET n == RunLenNot(s, 1, {c})
    IN  IF n = Len(s) THEN <<s>>
        ELSE <<SubSeq(s, 1, n)>> \o SplitOn(Tail2(s, n + 2), c)

\* s.split(): the maximal runs of non-whitespace characters
RECURSIVE SplitWS(_)
SplitWS(s) ==
    LET lead == RunLen(s, 1, Space)
        n    == RunLenNot(s, lead + 1, Space)
    IN  IF n = 0 THEN <<>>
        ELSE <<SubSeq(s, lead + 1, lead + n)>> \o SplitWS(Tail2(s, lead + n + 1))

\* sep.join(parts)
RECURSIVE Join(_, _)
Join(parts, sep) ==
    IF parts = <<>> THEN <<>>
    ELSE IF Len(parts) = 1 THEN parts[1]
    ELSE parts[1] \o sep \o Join(Tail(parts), sep)

\* str(n) for a natural number n
RECURSIVE Str(_)
Str(n) == IF n < 10 THEN <<DigitSeq[n + 1]>>
          ELSE Str(n \div 10) \o <<DigitSeq[(n % 10) + 1]>>

DigitVal(c) == Index(DigitSeq, c) - 1

\* int(s) for a string of decimal digits
RECURSIVE Int0(_, _)
Int0(s, acc) == IF s = <<>> THEN acc
                ELSE Int0(Tail(s), 10 * acc + DigitVal(Head(s)))
IntOf(s) == Int0(s, 0)

\* s < t in the str ordering of Python (code point by code point)
RECURSIVE StrLess(_, _)
StrLess(s, t) ==
    IF t = <<>> THEN FALSE
    ELSE IF s = <<>> THEN TRUE
    ELSE IF Head(s) = Head(t) THEN StrLess(Tail(s), Tail(t))
    ELSE Ord(Head(s)) < Ord(Head(t))


(***************************************************************************)
(* Sorting.  sorted() is SortSeq of the TLC module under the ordering of   *)
(* the element type.                                                       *)
(***************************************************************************)
IntLess(a, b) == a < b

\* some enumeration of a finite set (the iteration order of a Python set)
RECURSIVE SetToSeq(_)
SetToSeq(S) == IF S = {} THEN <<>>
               ELSE LET x == CHOOSE x \in S : TRUE
                    IN  <<x>> \o SetToSeq(S \ {x})

\* sorted(xs) for a list of int
SortedInts(seq) == SortSeq(seq, IntLess)
\* sorted(keys) for str keys
SortedStrs(S) == SortSeq(SetToSeq(S), StrLess)

(***************************************************************************)
(* Python values that are an int or a str: the document ids.  An int id n  *)
(* is PyInt(n), a str id "10" is PyStr(<<"1","0">>); the two are never     *)
(* equal, as 10 != "10" in Python.                                         *)
(***************************************************************************)
PyInt(n) == [kind |-> "int", n |-> n, s |-> <<>>]
PyStr(s) == [kind |-> "str", n |-> 0, s |-> s]

\* str(v)
PyToStr(v) == IF v.kind = "int" THEN Str(v.n) ELSE v.s
\* the document number a key denotes, whatever its kind
DocNum(v) == IF v.kind = "int" THEN v.n ELSE IntOf(v.s)

\* v < w as sorted() compares two ints or two strs
PyLess(v, w) == IF v.kind = "int" THEN v.n < w.n ELSE StrLess(v.s, w.s)

\* sorted(S) for a set of ids of one kind
PySorted(S) == SortSeq(SetToSeq(S), PyLess)

\* f with key k set to v, as the dict assignment f[k] = v
Put(f, k, v) == [x \in (DOMAIN f) \cup {k} |-> IF x = k THEN v ELSE f[x]]

\* the empty dict
EmptyDict == [x \in {} |-> 0]

(***************************************************************************)
(* preprocess (src/main.py 15-64).                                         *)
(***************************************************************************)
\* the character classes of email_regex
EmailLocal == AlNum \cup {"_", ".", "+", "-"}
EmailDomain == AlNum \cup {"-"}
EmailTail == AlNum \cup {"-", "."}

\* length of the match of email_regex at s[i], 0 if there is none
EmailLen(s, i) ==
    LET l  == RunLen(s, i, EmailLocal)
        at == i + l
        d  == RunLen(s, at + 1, EmailDomain)
        dt == at + 1 + d
        t  == RunLen(s, dt + 1, EmailTail)
    IN  IF /\ l > 0
           /\ at <= Len(s) /\ s[at] = "@"
           /\ d > 0
           /\ dt <= Len(s) /\ s[dt] = "."
           /\ t > 0
        THEN l + 1 + d + 1 + t
        ELSE 0

\* length of the match of url_regex at s[i], 0 if there is none
UrlLen(s, i) ==
    LET rest == Tail2(s, i)
        http == <<"h","t","t","p",":","/","/">>
        https == <<"h","t","t","p","s",":","/","/">>
        p == IF StartsWith(rest, https) THEN 8
             ELSE IF StartsWith(rest, http) THEN 7 ELSE 0
        n == RunLenNot(s, i + p, Space)
    IN  IF p > 0 /\ n > 0 THEN p + n ELSE 0

\* re.match(email_regex, token) or re.match(url_regex, token)
Preserved(token) == EmailLen(token, 1) > 0 \/ UrlLen(token, 1) > 0

\* re.findall(email | url | \S+, text) from s[i] on
RECURSIVE FindAll(_, _)
FindAll(s, i) ==
    IF i > Len(s) THEN <<>>
    ELSE IF s[i] \in Space THEN FindAll(s, i + 1)
    ELSE LET e == EmailLen(s, i)
             u == UrlLen(s, i)
             n == IF e > 0 THEN e
                  ELSE IF u > 0 THEN u
                  ELSE RunLenNot(s, i, Space)
         IN  <<SubSeq(s, i, i + n - 1)>> \o FindAll(s, i + n)

clean_token(token) ==
    IF Preserved(token) THEN token ELSE Keep(token, AlNum)

\* the stopword list read from Stopword-List.txt
stop_words == { <<"t","h","e">>, <<"a","n","d">>, <<"n","o","t">>,
                <<"f","o","r">> }

\* PorterStemmer().stem(token): lower-cases, then rewrites suffixes.  Of the
\* rewrite steps the plural step 1a is modelled; the later steps leave the
\* words of Vocabulary as they are.
stem(token) ==
    LET w == StrLower(token)
        cut(k) == SubSeq(w, 1, Len(w) - k)
    IN  IF EndsWith(w, <<"s","s","e","s">>) THEN cut(2)
        ELSE IF EndsWith(w, <<"i","e","s">>)
             THEN IF Len(w) = 4 THEN cut(1) ELSE cut(2)
        ELSE IF EndsWith(w, <<"s","s">>) THEN w
        ELSE IF EndsWith(w, <<"s">>) THEN cut(1)
        ELSE w

\* lines 51-62 for one cleaned token: the stemmed token, or nothing
ProcessToken(token) ==
    LET t == IF Preserved(token) THEN token
             ELSE Drop(StrLower(token), Digit)
    IN  IF /\ \E i \in 1..Len(t) : t[i] \in Alpha
           /\ Len(t) > 2
           /\ stem(t) \notin stop_words
        THEN <<stem(t)>>
        ELSE <<>>

RECURSIVE Concat(_)
Concat(seqs) == IF seqs = <<>> THEN <<>>
                ELSE Head(seqs) \o Concat(Tail(seqs))

preprocess(text) ==
    LET words == FindAll(text, 1)
    IN  Concat([i \in 1..Len(words) |-> ProcessToken(clean_token(words[i]))])


(***************************************************************************)
(* build_indexes, rebuild path (src/main.py 90-130).  A documents mapping  *)
(* is a function from int document ids to texts.                           *)
(***************************************************************************)
\* the positions numbered from 1, as enumerate(tokens, 1) would
TokenPositionFromOne(i) == i

\* enumerate(tokens): the position of the i-th token of the split
TokenPosition(i) == i - 1

\* lines 99-106 given preprocess(token) of every token: the positions
\* dict of one document, term -> positions in the order they were appended
PositionsOf(tok) ==
    LET n     == Len(tok)
        kept  == {i \in 1..n : tok[i] # <<>>}
    IN  [t \in {tok[i][1] : i \in kept} |->
            LET mine == SelectSeq([i \in 1..n |-> i],
                                  LAMBDA i : i \in kept /\ tok[i][1] = t)
            IN  [j \in 1..Len(mine) |-> TokenPosition(mine[j])]]

\* line 100 for every token of the split
PreprocessEach(tokens) == [i \in 1..Len(tokens) |-> preprocess(tokens[i])]

\* lines 95-106
Positions(document) == PositionsOf(PreprocessEach(SplitWS(document)))

\* the positions dict of every document of the collection
DocPositions(docs) == [d \in DOMAIN docs |-> Positions(docs[d])]

\* the terms that get an entry in both indexes
Terms(P) == UNION {DOMAIN P[d] : d \in DOMAIN P}

\* every document put into the posting set, whether it holds the term or not
PostingSetOfAll(P, t) == DOMAIN P

\* lines 117-119: the set inverted_index[t] after the loop over documents
PostingSet(P, t) == {d \in DOMAIN P : t \in DOMAIN P[d]}

\* lines 110-114: the keys of positional_index[t] after the loop
PositionalDocs(P, t) == {d \in DOMAIN P : t \in DOMAIN P[d]}

\* line 122, P being the positions dicts of the documents
SortedInverted(P) ==
    [t \in Terms(P) |-> SortedInts(SetToSeq(PostingSet(P, t)))]

\* lines 125-130
SortedPositional(P) ==
    [t \in Terms(P) |->
        [k \in {PyInt(d) : d \in PositionalDocs(P, t)} |->
            SortedInts(P[k.n][t])]]

(***************************************************************************)
(* The index codec (src/main.py 138-187).  A file is the sequence of its   *)
(* lines without the line ends; no term holds a line end, since a term     *)
(* comes from a whitespace-free word.                                      *)
(***************************************************************************)
\* index.items() of an index the builder returned: terms in sorted order
ItemOrder(index) == SortedStrs(DOMAIN index)

save_inverted_index(index) ==
    LET terms == ItemOrder(index)
    IN  [i \in 1..Len(terms) |->
            LET doc_ids == index[terms[i]]
            IN  terms[i] \o <<":">>
                \o Join([j \in 1..Len(doc_ids) |-> Str(doc_ids[j])], <<" ">>)]

save_positional_index(index) ==
    LET terms == ItemOrder(index)
        entry(postings, doc_id) ==
            <<" ">> \o PyToStr(doc_id) \o <<" ", "[">>
            \o Join([j \in 1..Len(postings[doc_id]) |->
                        Str(postings[doc_id][j])], <<",">>)
            \o <<"]">>
    IN  [i \in 1..Len(terms) |->
            LET postings == index[terms[i]]
                keys == PySorted(DOMAIN postings)
            IN  terms[i] \o <<":">>
                \o Concat([j \in 1..Len(keys) |-> entry(postings, keys[j])])]

\* lines 156-162 from the given line on, index being the dict so far
RECURSIVE LoadInverted(_, _)
LoadInverted(lines, index) ==
    IF lines = <<>> THEN index
    ELSE LET parts == SplitOn(Strip(Head(lines)), ":")
         IN  IF Len(parts) # 2 THEN LoadInverted(Tail(lines), index)
             ELSE LET ids == SplitWS(parts[2])
                  IN  LoadInverted(Tail(lines),
                         Put(index, parts[1],
                             [j \in 1..Len(ids) |-> IntOf(ids[j])]))

load_inverted_index(lines) == LoadInverted(lines, EmptyDict)

\* lines 177-185: the postings dict of one line, from pair i on
RECURSIVE LoadPostings(_, _, _)
LoadPostings(postings_list, i, postings) ==
    IF i > Len(postings_list) THEN postings
    ELSE IF i + 1 > Len(postings_list)
         THEN LoadPostings(postings_list, i + 2, postings)
    ELSE LET doc_id == postings_list[i]
             item == postings_list[i + 1]
             positions_str == SubSeq(item, 2, Len(item) - 1)
             fields == SplitOn(positions_str, ",")
         IN  IF positions_str = <<>>
             THEN LoadPostings(postings_list, i + 2, postings)
             ELSE LoadPostings(postings_list, i + 2,
                     Put(postings, PyStr(doc_id),
                         [j \in 1..Len(fields) |-> IntOf(fields[j])]))

\* lines 168-186 from the given line on
RECURSIVE LoadPositional(_, _)
LoadPositional(lines, index) ==
    IF lines = <<>> THEN index
    ELSE LET parts == SplitOn(Strip(Head(lines)), ":")
         IN  IF Len(parts) < 2 THEN LoadPositional(Tail(lines), index)
             ELSE LET postings_str == Join(Tail(parts), <<":">>)
                      postings_list == SplitWS(Strip(postings_str))
                  IN  LoadPositional(Tail(lines),
                         Put(index, parts[1],
                             LoadPostings(postings_list, 1, EmptyDict)))

load_positional_index(lines) == LoadPositional(lines, EmptyDict)


(***************************************************************************)
(* boolean_query (src/main.py 189-245).  The outcome of a query is a       *)
(* record: raised tells whether the call ended in an exception, result is  *)
(* the returned list.                                                      *)
(***************************************************************************)
OpAnd == <<"a","n","d">>
OpOr == <<"o","r">>
OpNot == <<"n","o","t">>

\* the state of the loop before the first term (lines 205-211)
BoolStart == [result_set |-> {}, last_operation |-> "None",
              not_flag |-> FALSE, raised |-> FALSE]

\* inverted_index.get(processed_term, set()) as a set
Lookup(inverted_index, processed_term) ==
    IF processed_term \in DOMAIN inverted_index
    THEN Range(inverted_index[processed_term])
    ELSE {}

\* lines 231-233: the NOT flag applied to the set of a term
ApplyNot(not_flag, term_results, all_documents) ==
    IF not_flag THEN all_documents \ term_results ELSE term_results

\* lines 235-242: the set of a term folded into the result
Combine(last_operation, result_set, term_results) ==
    IF last_operation = "AND" THEN result_set \cap term_results
    ELSE IF last_operation = "OR" THEN result_set \cup term_results
    ELSE term_results

\* an operator that leaves the NOT flag as it is
FlagKept(not_flag) == not_flag

\* the flag after an AND or an OR (lines 217, 220)
FlagAfterOperator(not_flag) == FALSE

\* one pass of the loop body (lines 215-242)
BoolStep(st, term, inverted_index, all_documents) ==
    IF StrLower(term) = OpAnd
    THEN [st EXCEPT !.last_operation = "AND",
                    !.not_flag = FlagAfterOperator(st.not_flag)]
    ELSE IF StrLower(term) = OpOr
    THEN [st EXCEPT !.last_operation = "OR",
                    !.not_flag = FlagAfterOperator(st.not_flag)]
    ELSE IF StrLower(term) = OpNot
    THEN [st EXCEPT !.not_flag = ~st.not_flag]
    ELSE LET processed == preprocess(term)
         IN  IF processed = <<>>
             THEN [st EXCEPT !.raised = TRUE]    \* [0] of an empty list
             ELSE LET term_results ==
                          ApplyNot(st.not_flag,
                                   Lookup(inverted_index, processed[1]),
                                   all_documents)
                  IN  [st EXCEPT !.result_set =
                          Combine(st.last_operation, st.result_set,
                                  term_results)]

RECURSIVE BoolLoop(_, _, _, _)
BoolLoop(st, query_terms, inverted_index, all_documents) ==
    IF query_terms = <<>> \/ st.raised THEN st
    ELSE BoolLoop(BoolStep(st, Head(query_terms), inverted_index,
                           all_documents),
                  Tail(query_terms), inverted_index, all_documents)

\* a list of int ids as the Python values they are
AsPyInts(seq) == [i \in 1..Len(seq) |-> PyInt(seq[i])]

boolean_query(query, inverted_index, all_documents) ==
    LET st == BoolLoop(BoolStart, SplitWS(query), inverted_index,
                       all_documents)
    IN  IF st.raised THEN [raised |-> TRUE, result |-> <<>>]
        ELSE [raised |-> FALSE,
              result |-> AsPyInts(SortedInts(SetToSeq(st.result_set)))]

(***************************************************************************)
(* proximity_query (src/main.py 247-284).                                  *)
(***************************************************************************)
Abs(x) == IF x < 0 THEN -x ELSE x

\* the distance taken with its sign, the second term after the first only
NearAfter(position, next_position, proximity_distance) ==
    next_position - position = proximity_distance + 1

\* line 279
Near(position, next_position, proximity_distance) ==
    Abs(next_position - position) = proximity_distance + 1

\* positional_index[term].get(doc_id, [])
PositionsIn(positional_index, term, doc_id) ==
    IF doc_id \in DOMAIN positional_index[term]
    THEN positional_index[term][doc_id]
    ELSE <<>>

\* lines 273-281: the documents added to result_set
ProximityMatches(query_terms, proximity_distance, positional_index) ==
    {doc_id \in DOMAIN positional_index[query_terms[1]] :
        \E i \in 2..Len(query_terms) :
            \E position \in Range(positional_index[query_terms[1]][doc_id]) :
                \E next_position \in
                        Range(PositionsIn(positional_index, query_terms[i],
                                          doc_id)) :
                    Near(position, next_position, proximity_distance)}

\* sorted(result_set), line 283
SortedResult(result_set) == PySorted(result_set)

\* line 259 and 262: the last token of the query; for a query that ends in
\* " k" it is k.  int() raises on anything but digits.
proximity_query(query, positional_index) ==
    LET tokens == SplitWS(query)
        last == IF tokens = <<>> THEN <<>> ELSE tokens[Len(tokens)]
        query_terms == preprocess(query)
    IN  IF last = <<>> \/ \E i \in 1..Len(last) : last[i] \notin Digit
        THEN [raised |-> TRUE, result |-> <<>>]
        ELSE IF \E i \in 1..Len(query_terms) :
                    query_terms[i] \notin DOMAIN positional_index
        THEN [raised |-> FALSE, result |-> <<>>]
        ELSE IF query_terms = <<>>
        THEN [raised |-> TRUE, result |-> <<>>]  \* query_terms[0]
        ELSE [raised |-> FALSE,
              result |-> SortedResult(
                  ProximityMatches(query_terms, IntOf(last),
                                   positional_index))]

\* line 372: re.match(r'\w+ \w+ /\s*\d+', query)
WordChar == AlNum \cup {"_"}
ValidProximity(query) ==
    LET a == RunLen(query, 1, WordChar)
        b == RunLen(query, a + 2, WordChar)
        slash == a + b + 3
        ws == RunLen(query, slash + 1, Space)
    IN  /\ a > 0 /\ b > 0
        /\ Len(query) > slash
        /\ query[a + 1] = " " /\ query[a + b + 2] = " "
        /\ query[slash] = "/"
        /\ RunLen(query, slash + 1 + ws, Digit) > 0


(***************************************************************************)
(* The inputs: document collections and queries over a small vocabulary.   *)
(***************************************************************************)
\* raw words: one that is case-folded, one that is stemmed, one that is
\* cleaned of punctuation and then dropped as a stopword
Vocabulary == { <<"D","a","t","a">>,
                <<"m","i","n","e","s">>,
                <<"t","h","e",",">> }

\* the document ids load_documents takes from the file names
DocIds == {2, 10}

\* the sequences of 1..n elements of S
RECURSIVE SeqsUpTo(_, _)
SeqsUpTo(S, n) ==
    IF n = 0 THEN {}
    ELSE LET shorter == SeqsUpTo(S, n - 1)
         IN  {<<x>> : x \in S} \cup shorter
             \cup {sq \o <<x>> : sq \in shorter, x \in S}

\* the texts of 1..MaxDocLen words
Texts == {Join(ws, <<" ">>) : ws \in SeqsUpTo(Vocabulary, MaxDocLen)}

\* what load_documents can return (lines 302-320): texts for some ids
Collections == UNION {[ids -> Texts] : ids \in SUBSET DocIds}

\* the tokens of a boolean query: the operators, in mixed case, and words
QueryTokens == { <<"A","N","D">>, <<"o","r">>, <<"N","o","t">> }
               \cup Vocabulary

\* "NOT A OR NOT B" and "A AND B" for two words
NotAOrNotB(A, B) ==
    Join(<< <<"N","O","T">>, A, <<"O","R">>, <<"N","O","T">>, B >>, <<" ">>)
AAndB(A, B) == Join(<< A, <<"A","N","D">>, B >>, <<" ">>)

\* every boolean query of 1..MaxQueryLen tokens
BooleanQueries ==
    {Join(ts, <<" ">>) : ts \in SeqsUpTo(QueryTokens, MaxQueryLen)}

\* the two sides of the De Morgan law for every pair of words
DeMorganQueries ==
    {NotAOrNotB(A, B) : A, B \in Vocabulary}
    \cup {AAndB(A, B) : A, B \in Vocabulary}

\* "X Y / k"
XYk(X, Y, k) == Join(<<X, Y, <<"/">>, Str(k)>>, <<" ">>)
ProximityQueries == {XYk(X, Y, k) : X, Y \in Vocabulary, k \in 0..MaxK}

(***************************************************************************)
(* The state: the process (main, lines 322-445) and the index files that   *)
(* outlive it.                                                             *)
(***************************************************************************)
VARIABLES
    documents,              \* the mapping load_documents returned
    inverted_index_file,    \* indexes/invertedindex.txt
    positional_index_file,  \* indexes/positionalindex.txt
    inverted_index,         \* what build_indexes returned to main
    positional_index,
    pc,                     \* "main": before build_indexes; "mainloop":
                            \* idle; "execute_query": in the handler
    path,                   \* how build_indexes returned: "built", "loaded"
    query_type,             \* the query being executed, "None" if none
    query,
    outcome,                \* what the evaluator did: raised, result
    first                   \* history: the build_indexes call that wrote
                            \* the files, its documents and what it returned

vars == <<documents, inverted_index_file, positional_index_file,
          inverted_index, positional_index, pc, path, query_type, query,
          outcome, first>>

NoFile == [exists |-> FALSE, lines |-> <<>>]
File(lines) == [exists |-> TRUE, lines |-> lines]
NoOutcome == [raised |-> FALSE, result |-> <<>>]

\* a process has read its documents; no index file exists yet
Init ==
    /\ documents \in Collections
    /\ inverted_index_file = NoFile
    /\ positional_index_file = NoFile
    /\ inverted_index = EmptyDict
    /\ positional_index = EmptyDict
    /\ pc = "main"
    /\ path = "None"
    /\ query_type = "None"
    /\ query = <<>>
    /\ outcome = NoOutcome
    /\ first = [called |-> FALSE, documents |-> EmptyDict,
                inverted |-> EmptyDict, positional |-> EmptyDict]

\* lines 85-88: both files exist, the indexes are loaded from them
LoadIndexes ==
    /\ inverted_index' = load_inverted_index(inverted_index_file.lines)
    /\ positional_index' = load_positional_index(positional_index_file.lines)
    /\ path' = "loaded"
    /\ UNCHANGED <<inverted_index_file, positional_index_file, first>>

\* lines 132-136: the indexes are saved and returned
SaveIndexes(inv, pos) ==
    /\ inverted_index' = inv
    /\ positional_index' = pos
    /\ inverted_index_file' = File(save_inverted_index(inv))
    /\ positional_index_file' = File(save_positional_index(pos))
    /\ path' = "built"
    /\ first' = [called |-> TRUE, documents |-> documents,
                 inverted |-> inv, positional |-> pos]

\* lines 90-136
Rebuild(P) == SaveIndexes(SortedInverted(P), SortedPositional(P))

\* build_indexes(documents), lines 66-136, called from main (line 326)
build_indexes ==
    /\ pc = "main"
    /\ pc' = "mainloop"
    /\ IF inverted_index_file.exists /\ positional_index_file.exists
       THEN LoadIndexes
       ELSE Rebuild(DocPositions(documents))
    /\ UNCHANGED <<documents, query_type, query, outcome>>

\* execute_query with the Boolean button selected, up to the return of
\* boolean_query (lines 365-369).  The event loop handles one event at a
\* time: no other handler runs until this one has returned.
ExecuteBoolean(q) ==
    /\ pc = "mainloop"
    /\ pc' = "execute_query"
    /\ query_type' = "Boolean"
    /\ query' = q
    /\ outcome' = boolean_query(q, inverted_index, DOMAIN documents)
    /\ UNCHANGED <<documents, inverted_index_file, positional_index_file,
                   inverted_index, positional_index, path, first>>

\* execute_query with the Proximity button selected, up to the return of
\* proximity_query (lines 370-379)
ExecuteProximity(q) ==
    /\ pc = "mainloop"
    /\ ValidProximity(q)
    /\ pc' = "execute_query"
    /\ query_type' = "Proximity"
    /\ query' = q
    /\ outcome' = proximity_query(q, positional_index)
    /\ UNCHANGED <<documents, inverted_index_file, positional_index_file,
                   inverted_index, positional_index, path, first>>

\* the rest of execute_query (lines 383-397), or the exception reported by
\* the event loop: the handler is over and its locals are gone
ShowResults ==
    /\ pc = "execute_query"
    /\ pc' = "mainloop"
    /\ query_type' = "None"
    /\ query' = <<>>
    /\ outcome' = NoOutcome
    /\ UNCHANGED <<documents, inverted_index_file, positional_index_file,
                   inverted_index, positional_index, path, first>>

\* the process ends and main runs again on the documents docs; the index
\* files stay where they are
Main(docs) ==
    /\ pc = "mainloop"
    /\ documents' = docs
    /\ inverted_index' = EmptyDict
    /\ positional_index' = EmptyDict
    /\ pc' = "main"
    /\ path' = "None"
    /\ query_type' = "None"
    /\ query' = <<>>
    /\ outcome' = NoOutcome
    /\ UNCHANGED <<inverted_index_file, positional_index_file, first>>

\* main runs again on the same document directory
Rerun == Main(documents)

\* main runs again after the document directory changed
RerunOther == \E docs \in Collections \ {documents} : Main(docs)

\* The index life cycle over one document directory.
Next == build_indexes \/ Rerun
Spec == Init /\ [][Next]_vars

\* The index life cycle when the document directory changes between runs.
NextShared == build_indexes \/ Rerun \/ RerunOther
SpecShared == Init /\ [][NextShared]_vars

\* Proximity queries and the two sides of the De Morgan law against a built
\* and against a loaded index.
NextQuery ==
    \/ build_indexes
    \/ Rerun
    \/ \E q \in DeMorganQueries : ExecuteBoolean(q)
    \/ \E q \in ProximityQueries : ExecuteProximity(q)
    \/ ShowResults
SpecQuery == Init /\ [][NextQuery]_vars

\* Every boolean query of bounded length against a built and against a
\* loaded index.
NextBoolean ==
    \/ build_indexes
    \/ Rerun
    \/ \E q \in BooleanQueries : ExecuteBoolean(q)
    \/ ShowResults
SpecBoolean == Init /\ [][NextBoolean]_vars


(***************************************************************************)
(* Properties.                                                             *)
(***************************************************************************)
\* build_indexes has returned indexes it built from the documents
Built == path = "built"
\* build_indexes has returned indexes it loaded from the files
Loaded == path = "loaded"

\* every document key that occurs in the positional index
PositionalKeys ==
    UNION {DOMAIN positional_index[t] : t \in DOMAIN positional_index}

\* the set of values of a result list
ResultSet == Range(outcome.result)

StrictlyAscending(seq) == \A i \in 1..Len(seq) - 1 : seq[i] < seq[i + 1]

\* the normalised word is a term and a key of the index
IsKey(processed, index) ==
    processed # <<>> /\ processed[1] \in DOMAIN index

\* C1: Codec round trip.  The files save_inverted_index and
\* save_positional_index wrote for the indexes build_indexes built load back,
\* with load_inverted_index and load_positional_index, as indexes equal to
\* the ones saved: same terms, same document keys of the same kind, same
\* posting and position lists.
C1_RoundTrip ==
    Built =>
        /\ load_inverted_index(inverted_index_file.lines) = inverted_index
        /\ load_positional_index(positional_index_file.lines)
               = positional_index

\* C2: Build idempotence.  A build_indexes call that follows, with the same
\* documents and the same index directory, the call that found no files
\* returns indexes identical to those the first call returned.
C2_Idempotent ==
    (Loaded /\ first.called /\ documents = first.documents) =>
        /\ inverted_index = first.inverted
        /\ positional_index = first.positional

\* C3: Inverted/positional consistency.  In the indexes build_indexes built
\* from the documents, for every term t and document id d: d is in
\* inverted_index[t] iff positional_index[t] has the key d with a non-empty
\* position list.
C3_Consistent ==
    Built =>
        \A t \in (DOMAIN inverted_index) \cup (DOMAIN positional_index) :
            \A k \in {PyInt(d) : d \in DocIds} \cup PositionalKeys :
                (/\ t \in DOMAIN inverted_index
                 /\ k.kind = "int"
                 /\ k.n \in Range(inverted_index[t]))
                <=>
                (/\ t \in DOMAIN positional_index
                 /\ k \in DOMAIN positional_index[t]
                 /\ positional_index[t][k] # <<>>)

\* a built index in which some term is in one document and not in the other
C3_Witness ==
    /\ Built
    /\ DOMAIN documents = DocIds
    /\ \E t \in DOMAIN inverted_index : inverted_index[t] = <<10>>
    /\ \E t \in DOMAIN inverted_index : inverted_index[t] = <<2, 10>>

\* C4: Every document id in a posting list of the inverted index that
\* build_indexes(documents) returned is a key of that documents mapping, after
\* any sequence of build_indexes calls on one index directory, the documents
\* changing or not between the calls.
C4_PostingsAreDocuments ==
    (Built \/ Loaded) =>
        \A t \in DOMAIN inverted_index :
            Range(inverted_index[t]) \subseteq DOMAIN documents

\* the positions at which the words of a text normalise to the term t
PositionsOfTerm(text, t) ==
    LET words == SplitWS(text)
    IN  {i - 1 : i \in {j \in 1..Len(words) :
                           /\ preprocess(words[j]) # <<>>
                           /\ preprocess(words[j])[1] = t}}

\* C5: Sortedness.  In the indexes build_indexes built, every posting list
\* and every position list is strictly ascending (so without duplicates),
\* and the positions of a term in a document are the zero-based indexes, in
\* the whitespace split of the document, of the words that normalise to it.
C5_Sorted ==
    Built =>
        /\ \A t \in DOMAIN inverted_index :
               StrictlyAscending(inverted_index[t])
        /\ \A t \in DOMAIN positional_index :
               \A k \in DOMAIN positional_index[t] :
                   /\ StrictlyAscending(positional_index[t][k])
                   /\ k.kind = "int" /\ k.n \in DOMAIN documents
                   /\ Range(positional_index[t][k])
                          = PositionsOfTerm(documents[k.n], t)

\* a built index with a posting list of two documents and a position that a
\* dropped word has pushed to 1
C5_Witness ==
    /\ Built
    /\ \E t \in DOMAIN inverted_index : Len(inverted_index[t]) = 2
    /\ \E t \in DOMAIN positional_index :
           \E k \in DOMAIN positional_index[t] :
               /\ positional_index[t][k] = <<1>>
               /\ DOMAIN Positions(documents[k.n]) = {t}

\* the documents in which some position of the term x and some position of
\* the term y are k + 1 apart
Apart(x, y, k) ==
    {d \in PositionalKeys :
        /\ d \in DOMAIN positional_index[x]
        /\ d \in DOMAIN positional_index[y]
        /\ \E p \in Range(positional_index[x][d]) :
               \E q \in Range(positional_index[y][d]) :
                   Abs(q - p) = k + 1}

C7_NeverRaises ==
    query_type = "Boolean" => ~outcome.raised

\* the document numbers of a result list
Numbers(result) == {DocNum(result[i]) : i \in 1..Len(result)}

\* C8: De Morgan.  For two terms A and B of the inverted index, the universe
\* minus the result of "A AND B" equals the result of "NOT A OR NOT B" over
\* the same universe.
C8_DeMorgan ==
    query_type = "Boolean" =>
        LET words == SplitWS(query)
            universe == DOMAIN documents
            \* the query is "A AND B" or "NOT A OR NOT B"
            plain == Len(words) = 3
            A == IF plain THEN words[1] ELSE words[2]
            B == IF plain THEN words[3] ELSE words[5]
            other == boolean_query(IF plain THEN NotAOrNotB(A, B)
                                   ELSE AAndB(A, B),
                                   inverted_index, universe)
        IN  (/\ Len(words) \in {3, 5}
             /\ query \in {AAndB(A, B), NotAOrNotB(A, B)}
             /\ IsKey(preprocess(A), inverted_index)
             /\ IsKey(preprocess(B), inverted_index))
            =>
            /\ ~outcome.raised /\ ~other.raised
            /\ IF plain
               THEN universe \ Numbers(outcome.result) = Numbers(other.result)
               ELSE universe \ Numbers(other.result) = Numbers(outcome.result)

\* "NOT A OR NOT B" has returned one of two documents, A and B being
\* different terms of the index
C8_Witness ==
    \E A \in Vocabulary, B \in Vocabulary :
        /\ query_type = "Boolean"
        /\ query = NotAOrNotB(A, B)
        /\ IsKey(preprocess(A), inverted_index)
        /\ IsKey(preprocess(B), inverted_index)
        /\ preprocess(A) # preprocess(B)
        /\ DOMAIN documents = DocIds
        /\ Len(outcome.result) = 1

\* C9: Query output ordering.  boolean_query and proximity_query return the
\* matching document ids in ascending numeric order without duplicates,
\* whether build_indexes built the index or loaded it.
C9_Ascending ==
    (query_type # "None" /\ ~outcome.raised) =>
        \A i \in 1..Len(outcome.result) - 1 :
            DocNum(outcome.result[i]) < DocNum(outcome.result[i + 1])

\* the number of NOT tokens that stand right before token i
RECURSIVE NotsBefore(_, _)
NotsBefore(tokens, i) ==
    IF i = 1 \/ StrLower(tokens[i - 1]) # OpNot THEN 0
    ELSE 1 + NotsBefore(tokens, i - 1)

\* the fold of C10 over tokens i.., acc being the result so far and op the
\* last AND or OR: a term is complemented iff an odd number of NOTs stand
\* right before it
RECURSIVE NextTermFold(_, _, _, _)
NextTermFold(tokens, i, acc, op) ==
    IF i > Len(tokens) THEN acc
    ELSE IF StrLower(tokens[i]) = OpAnd
         THEN NextTermFold(tokens, i + 1, acc, "AND")
    ELSE IF StrLower(tokens[i]) = OpOr
         THEN NextTermFold(tokens, i + 1, acc, "OR")
    ELSE IF StrLower(tokens[i]) = OpNot
         THEN NextTermFold(tokens, i + 1, acc, op)
    ELSE LET plain == Lookup(inverted_index, preprocess(tokens[i])[1])
             set == IF NotsBefore(tokens, i) % 2 = 1
                    THEN (DOMAIN documents) \ plain ELSE plain
         IN  NextTermFold(tokens, i + 1, Combine(op, acc, set), op)

\* C10: A NOT applies to the next evaluated search term only: boolean_query
\* complements the set of a term iff an odd number of NOT tokens stand
\* between it and the previous token that is not NOT; no negation stays
\* pending for a later term.
C10_NotIsForNextTerm ==
    (query_type = "Boolean" /\ ~outcome.raised) =>
        Numbers(outcome.result)
            = NextTermFold(SplitWS(query), 1, {}, "None")

====
